---- MODULE Spec2Model ----
(***************************************************************************)
(* Model of src/main.rs: an SGP30 gas sensor published as a HomeKit air     *)
(* quality accessory.  Three asynchronous read callbacks (air quality       *)
(* index, CO2 level, VOC density) share one sensor handle, the global       *)
(* SGP30 : Arc<Mutex<Sgp30>>.  Each callback evaluates                      *)
(*     SGP30.lock().unwrap().measure().unwrap()                             *)
(* and the index callback classifies the two readings into tiers 1..5.      *)
(***************************************************************************)
EXTENDS Integers, FiniteSets, Sequences, TLC

(***************************************************************************)
(* Bounds of the model.                                                     *)
(***************************************************************************)
\* concurrently running read callbacks (tasks of the server's runtime)
NumReaders == 3
\* read invocations the server makes in one run
MaxInvocations == 3
\* largest CO2 reading (ppm) of the classification sweep
MaxPpm == 5200
\* largest VOC reading (ppb) of the classification sweep
MaxPpb == 700
\* readings below zero tried on the classification: -MaxNegative .. -1
MaxNegative == 40
\* process starts on the same storage location
MaxStarts == 2
\* network interfaces of the host, and addresses of one interface
MaxIfaces == 2
MaxAddrs == 2

Readers == 1..NumReaders

\* the three characteristics whose on_read_async callbacks main registers
Kinds == {"index", "co2", "voc"}

NoValue == [some |-> FALSE]
Some(v) == [some |-> TRUE, value |-> v]
NoMeasurement == [co2eq_ppm |-> 0, tvoc_ppb |-> 0, tx |-> 0]
NoLocal == [val |-> 0, tx |-> 0]

\* readings the hardware returns in the concurrent specification
Samples == {<<3000, 30>>, <<100, 600>>}

\* readings around every band edge, for the classification sweep
Co2Edges == {0, 100, 399, 400, 999, 1000, 1999, 2000, 3000, 4999, 5000, 65535}
VocEdges == {0, 24, 25, 30, 49, 50, 324, 325, 499, 500, 600, 65535}

VARIABLES
    process,      \* "running" | "terminated": the server process
    pc,           \* pc[r]: position of read callback r
    kind,         \* kind[r]: the characteristic read callback r serves
    holder,       \* the readers owning a live MutexGuard of SGP30
    poisoned,     \* the poison flag of the SGP30 mutex
    lastTx,       \* the sensor's most recent measurement (device state)
    txCount,      \* hardware transactions performed so far
    txBy,         \* txBy[r]: transactions performed by r's current invocation
    txResult,     \* txResult[r]: "none" | "ok" | "err", result of r's measure()
    measurement,  \* measurement[r]: the local `measurement` (index) / temporary
    co2,          \* co2[r]: the local `co2` of the index callback
    voc,          \* voc[r]: the local `voc` of the index callback
    co2_value,    \* co2_value[r]: the local `co2_value`
    voc_value,    \* voc_value[r]: the local `voc_value`
    ret,          \* ret[r]: the Option the callback returned
    invocations,  \* read invocations made so far
    sensorInits,  \* times the SGP30 initialiser (lines 28-36) ran in this process
    bpc,          \* position of main
    ifaces,       \* pnet::datalink::interfaces(): per interface, its ips
    storage,      \* the config held by the FileStorage at DATA_PATH
    config,       \* the local `config` of main
    server,       \* the config IpServer::new was given
    path,         \* bootstrap phases main has entered, in order
    fatal,        \* the startup error that ended the process, or "none"
    readyCount,   \* times `config` was bound (line 122) in this process
    starts,       \* process starts so far on this storage location
    firstPersisted \* the first config saved to storage, and the start that saved it

bootVars == <<bpc, ifaces, storage, config, server, path, fatal, readyCount,
              starts, firstPersisted>>

vars == <<process, pc, kind, holder, poisoned, lastTx, txCount, txBy, txResult,
          measurement, co2, voc, co2_value, voc_value, ret, invocations,
          sensorInits, bootVars>>

(***************************************************************************)
(* Classification (lines 75-99): chained Range::contains tests.             *)
(***************************************************************************)
\* (lo..hi).contains(&x): lo <= x < hi
Contains(lo, hi, x) == lo <= x /\ x < hi

Co2ValueOffByOne(c) ==
    IF c <= 400 THEN 1
    ELSE IF c <= 1000 THEN 2
    ELSE IF c <= 2000 THEN 3
    ELSE IF c <= 5000 THEN 4
    ELSE 5

Co2ValueZeroBased(c) ==
    IF Contains(0, 400, c) THEN 0
    ELSE IF Contains(400, 1000, c) THEN 1
    ELSE IF Contains(1000, 2000, c) THEN 2
    ELSE IF Contains(2000, 5000, c) THEN 3
    ELSE 4

Co2ValueClamped(c) ==
    IF c < 400 THEN 1
    ELSE IF Contains(400, 1000, c) THEN 2
    ELSE IF Contains(1000, 2000, c) THEN 3
    ELSE IF Contains(2000, 5000, c) THEN 4
    ELSE 5

Co2ValueBandsSwapped(c) ==
    IF Contains(0, 400, c) THEN 1
    ELSE IF Contains(400, 1000, c) THEN 2
    ELSE IF Contains(1000, 2000, c) THEN 4
    ELSE IF Contains(2000, 5000, c) THEN 3
    ELSE 5

Co2Value(c) ==
    IF Contains(0, 400, c) THEN 1
    ELSE IF Contains(400, 1000, c) THEN 2
    ELSE IF Contains(1000, 2000, c) THEN 3
    ELSE IF Contains(2000, 5000, c) THEN 4
    ELSE 5

VocValueOffByOne(v) ==
    IF v <= 25 THEN 1
    ELSE IF v <= 50 THEN 2
    ELSE IF v <= 325 THEN 3
    ELSE IF v <= 500 THEN 4
    ELSE 5

VocValue(v) ==
    IF Contains(0, 25, v) THEN 1
    ELSE IF Contains(25, 50, v) THEN 2
    ELSE IF Contains(50, 325, v) THEN 3
    ELSE IF Contains(325, 500, v) THEN 4
    ELSE 5

CmpMin(a, b) == IF a <= b THEN a ELSE b

\* cmp::max(co2_value, voc_value)
CmpMax(a, b) == IF b >= a THEN b ELSE a

(***************************************************************************)
(* The mutex around the sensor.                                             *)
(***************************************************************************)
MutexAlwaysFree == TRUE

\* Mutex::lock returns only when no other guard is alive
MutexFree == holder = {}

GuardLeaked(r) == holder

\* the MutexGuard temporary is dropped: at the end of the statement, or by
\* unwinding when an unwrap() panics
DropGuard(r) == holder \ {r}

(***************************************************************************)
(* Locals of the index callback (lines 72-73).                              *)
(***************************************************************************)
Co2Of(r) == [val |-> measurement[r].co2eq_ppm, tx |-> measurement[r].tx]

TvocOfDevice(r) == [val |-> lastTx.tvoc_ppb, tx |-> lastTx.tx]

TvocOf(r) == [val |-> measurement[r].tvoc_ppb, tx |-> measurement[r].tx]

(***************************************************************************)
(* The sensor handle: lazy_static SGP30 (lines 27-37).                      *)
(***************************************************************************)
LazyInitAgain(n) == n + 1

\* lazy_static runs the initialiser on the first access only
LazyInit(n) == IF n = 0 THEN 1 ELSE n

(***************************************************************************)
(* Configuration bootstrap (lines 43-55, 120-136).                          *)
(***************************************************************************)
NoAddr == "none"

\* addresses an interface may carry: IPv6, IPv4 loopback, two other IPv4
Addrs == {"fe80::1", "127.0.0.1", "192.168.1.10", "10.0.0.5"}

\* ip_network.is_ipv4()
IsIpv4(a) == a \in {"127.0.0.1", "192.168.1.10", "10.0.0.5"}

\* ip.is_loopback()
IsLoopback(a) == a \in {"127.0.0.1", "::1"}

\* the inner loop of current_ipv4 (lines 45-52) on the ips of one interface
RECURSIVE ScanIps(_)
ScanIps(ips) ==
    IF ips = <<>> THEN NoAddr
    ELSE IF IsIpv4(Head(ips)) /\ ~IsLoopback(Head(ips)) THEN Head(ips)
    ELSE ScanIps(Tail(ips))

RECURSIVE ScanIpsLast(_)
ScanIpsLast(ips) ==
    IF ips = <<>> THEN NoAddr
    ELSE LET rest == ScanIpsLast(Tail(ips))
         IN  IF rest # NoAddr THEN rest
             ELSE IF IsIpv4(Head(ips)) /\ ~IsLoopback(Head(ips)) THEN Head(ips)
             ELSE NoAddr

RECURSIVE CurrentIpv4Last(_)
CurrentIpv4Last(ifs) ==
    IF ifs = <<>> THEN NoAddr
    ELSE LET rest == CurrentIpv4Last(Tail(ifs))
         IN  IF rest # NoAddr THEN rest ELSE ScanIpsLast(Head(ifs))

\* current_ipv4 (lines 43-55): the first interface, in enumeration order, with
\* a non-loopback IPv4 address yields its first such address; else None
RECURSIVE CurrentIpv4(_)
CurrentIpv4(ifs) ==
    IF ifs = <<>> THEN NoAddr
    ELSE LET found == ScanIps(Head(ifs))
         IN  IF found # NoAddr THEN found ELSE CurrentIpv4(Tail(ifs))

NoConfig ==
    [socket_addr |-> <<NoAddr, 0>>, pin |-> <<>>, name |-> "",
     device_id |-> <<>>, category |-> ""]

\* the Config literal of lines 125-132
DerivedConfig(ip) ==
    [socket_addr |-> <<ip, 32000>>,
     pin |-> <<1, 1, 1, 2, 2, 3, 3, 3>>,
     name |-> "Air Quality Sensor",
     device_id |-> <<10, 20, 30, 40, 50, 60>>,
     category |-> "Sensor"]

NoPersist == [cfg |-> NoConfig, start |-> 0]

UnwrapIgnoring(ok, next) == next

\* .unwrap() in main: on Err / None main panics and the process ends
Unwrap(ok, next) == IF ok THEN next ELSE "failed"

LoadNeverSucceeds == FALSE

\* storage.load_config() returns Ok: the storage holds a config
LoadSucceeded == storage # NoConfig

OnLoadAlwaysDerive(ok) == "derive"

\* the match of lines 122-124: Ok(config) => config, Err(_) => derive
OnLoad(ok) == IF ok THEN "ready" ELSE "derive"

\* interface lists of the host in the bootstrap specification
HostSamples ==
    { <<>>,
      << <<"127.0.0.1">> >>,
      << <<"127.0.0.1">>, <<"fe80::1", "192.168.1.10">> >>,
      << <<"10.0.0.5">>, <<"192.168.1.10">> >> }

SeqsUpTo(S, n) == UNION {[1..k -> S] : k \in 0..n}

\* every interface list within the bounds
AllHosts == SeqsUpTo(SeqsUpTo(Addrs, MaxAddrs), MaxIfaces)

\* no read callback has run
ReadersIdle ==
    /\ pc = [r \in Readers |-> "idle"]
    /\ kind = [r \in Readers |-> "index"]
    /\ holder = {}
    /\ poisoned = FALSE
    /\ lastTx = NoMeasurement
    /\ txCount = 0
    /\ txBy = [r \in Readers |-> 0]
    /\ txResult = [r \in Readers |-> "none"]
    /\ measurement = [r \in Readers |-> NoMeasurement]
    /\ co2 = [r \in Readers |-> NoLocal]
    /\ voc = [r \in Readers |-> NoLocal]
    /\ co2_value = [r \in Readers |-> 0]
    /\ voc_value = [r \in Readers |-> 0]
    /\ ret = [r \in Readers |-> NoValue]
    /\ invocations = 0

(***************************************************************************)
(* Initial state: main has initialised the sensor, assembled the accessory  *)
(* and the server is running; no read is in progress.                       *)
(***************************************************************************)
Init ==
    /\ process = "running"
    /\ pc = [r \in Readers |-> "idle"]
    /\ kind = [r \in Readers |-> "index"]
    /\ holder = {}
    /\ poisoned = FALSE
    /\ lastTx = NoMeasurement
    /\ txCount = 0
    /\ txBy = [r \in Readers |-> 0]
    /\ txResult = [r \in Readers |-> "none"]
    /\ measurement = [r \in Readers |-> NoMeasurement]
    /\ co2 = [r \in Readers |-> NoLocal]
    /\ voc = [r \in Readers |-> NoLocal]
    /\ co2_value = [r \in Readers |-> 0]
    /\ voc_value = [r \in Readers |-> 0]
    /\ ret = [r \in Readers |-> NoValue]
    /\ invocations = 0
    /\ sensorInits = 1
    /\ bpc = "serving"
    /\ ifaces = << <<"127.0.0.1">>, <<"fe80::1", "192.168.1.10">> >>
    /\ storage = DerivedConfig("192.168.1.10")
    /\ config = storage
    /\ server = config
    /\ path = <<"load_ok">>
    /\ fatal = "none"
    /\ readyCount = 1
    /\ starts = 1
    /\ firstPersisted = NoPersist

Finished(r) == pc[r] \in {"done", "panicked"}

\* The server invokes the read callback of characteristic k as task r.
Invoke(r, k) ==
    /\ process = "running"
    /\ bpc = "serving"
    /\ pc[r] = "idle" \/ Finished(r)
    /\ invocations < MaxInvocations
    /\ invocations' = invocations + 1
    /\ pc' = [pc EXCEPT ![r] = "lock"]
    /\ kind' = [kind EXCEPT ![r] = k]
    /\ txBy' = [txBy EXCEPT ![r] = 0]
    /\ txResult' = [txResult EXCEPT ![r] = "none"]
    /\ measurement' = [measurement EXCEPT ![r] = NoMeasurement]
    /\ co2' = [co2 EXCEPT ![r] = NoLocal]
    /\ voc' = [voc EXCEPT ![r] = NoLocal]
    /\ co2_value' = [co2_value EXCEPT ![r] = 0]
    /\ voc_value' = [voc_value EXCEPT ![r] = 0]
    /\ ret' = [ret EXCEPT ![r] = NoValue]
    /\ UNCHANGED <<process, holder, poisoned, lastTx, txCount, sensorInits,
                   bootVars>>

\* SGP30.lock() returns Ok(guard), unwrap() yields the guard and measure()
\* starts its hardware transaction.
LockOk(r) ==
    /\ process = "running"
    /\ pc[r] = "lock"
    /\ MutexFree
    /\ ~poisoned
    /\ holder' = holder \cup {r}
    /\ pc' = [pc EXCEPT ![r] = "measuring"]
    /\ sensorInits' = LazyInit(sensorInits)
    /\ UNCHANGED <<process, kind, poisoned, lastTx, txCount, txBy, txResult,
                   measurement, co2, voc, co2_value, voc_value, ret, invocations,
                   bootVars>>

\* What a panic in a read callback does to the process is decided outside
\* main.rs (the runtime's task that polls the callback, the panic strategy of
\* the build): the task alone dies, or the process goes down with it.
PanicOutcomes == {"running", "terminated"}

\* SGP30.lock() returns Err(PoisonError(guard)); unwrap() panics and the guard
\* inside the error is dropped by the unwinding.
LockPoisoned(r) ==
    /\ process = "running"
    /\ pc[r] = "lock"
    /\ MutexFree
    /\ poisoned
    /\ pc' = [pc EXCEPT ![r] = "panicked"]
    /\ \E p \in PanicOutcomes : process' = p
    /\ sensorInits' = LazyInit(sensorInits)
    /\ UNCHANGED <<kind, holder, poisoned, lastTx, txCount, txBy, txResult,
                   measurement, co2, voc, co2_value, voc_value, ret, invocations,
                   bootVars>>

\* measure() returns Ok(Measurement {c, v}); the second unwrap() yields it.
MeasureOk(r, c, v) ==
    /\ process = "running"
    /\ pc[r] = "measuring"
    /\ txCount' = txCount + 1
    /\ txBy' = [txBy EXCEPT ![r] = @ + 1]
    /\ txResult' = [txResult EXCEPT ![r] = "ok"]
    /\ lastTx' = [co2eq_ppm |-> c, tvoc_ppb |-> v, tx |-> txCount + 1]
    /\ measurement' = [measurement EXCEPT ![r] = lastTx']
    /\ pc' = [pc EXCEPT ![r] = "measured"]
    /\ UNCHANGED <<process, kind, holder, poisoned, co2, voc, co2_value,
                   voc_value, ret, invocations,
                   sensorInits, bootVars>>

\* measure() returns Err: the second unwrap() panics while the guard is alive,
\* which poisons the mutex; the unwinding drops the guard.  When the process
\* goes down instead, no guard outlives it.
MeasureErr(r) ==
    /\ process = "running"
    /\ pc[r] = "measuring"
    /\ txCount' = txCount + 1
    /\ txBy' = [txBy EXCEPT ![r] = @ + 1]
    /\ txResult' = [txResult EXCEPT ![r] = "err"]
    /\ pc' = [pc EXCEPT ![r] = "panicked"]
    /\ holder' = DropGuard(r)
    /\ poisoned' = TRUE
    /\ \E p \in PanicOutcomes : process' = p
    /\ UNCHANGED <<kind, lastTx, measurement, co2, voc, co2_value, voc_value,
                   ret, invocations,
                   sensorInits, bootVars>>

\* End of `let measurement = ...;` (line 71): the guard temporary is dropped.
EndLet(r) ==
    /\ process = "running"
    /\ pc[r] = "measured"
    /\ kind[r] = "index"
    /\ holder' = DropGuard(r)
    /\ pc' = [pc EXCEPT ![r] = "classify"]
    /\ UNCHANGED <<process, kind, poisoned, lastTx, txCount, txBy, txResult,
                   measurement, co2, voc, co2_value, voc_value, ret, invocations,
                   sensorInits, bootVars>>

\* Lines 72-99 of the index callback.
Classify(r) ==
    /\ process = "running"
    /\ pc[r] = "classify"
    /\ co2' = [co2 EXCEPT ![r] = Co2Of(r)]
    /\ voc' = [voc EXCEPT ![r] = TvocOf(r)]
    /\ co2_value' = [co2_value EXCEPT ![r] = Co2Value(co2'[r].val)]
    /\ voc_value' = [voc_value EXCEPT ![r] = VocValue(voc'[r].val)]
    /\ ret' = [ret EXCEPT ![r] = Some(CmpMax(co2_value'[r], voc_value'[r]))]
    /\ pc' = [pc EXCEPT ![r] = "done"]
    /\ UNCHANGED <<process, kind, holder, poisoned, lastTx, txCount, txBy,
                   txResult, measurement, invocations,
                   sensorInits, bootVars>>

\* u16 as f32: the nearest value with a 24-bit significand (exact below 2^24)
RECURSIVE AsF32(_)
AsF32(x) ==
    IF x < 16777216 THEN x
    ELSE LET h == x \div 2
             odd == x % 2 = 1
             up == odd /\ (h % 2 = 1)
         IN  2 * AsF32(IF up THEN h + 1 ELSE h)

\* Lines 107 and 115: Some(<reading> as f32); the guard temporary is dropped
\* when the expression has been evaluated.
ReturnRaw(r) ==
    /\ process = "running"
    /\ pc[r] = "measured"
    /\ kind[r] \in {"co2", "voc"}
    /\ ret' = [ret EXCEPT ![r] =
                 Some(AsF32(IF kind[r] = "co2" THEN measurement[r].co2eq_ppm
                                               ELSE measurement[r].tvoc_ppb))]
    /\ holder' = DropGuard(r)
    /\ pc' = [pc EXCEPT ![r] = "done"]
    /\ UNCHANGED <<process, kind, poisoned, lastTx, txCount, txBy, txResult,
                   measurement, co2, voc, co2_value, voc_value, invocations,
                   sensorInits, bootVars>>

Next ==
    \/ \E r \in Readers, k \in Kinds : Invoke(r, k)
    \/ \E r \in Readers : LockOk(r)
    \/ \E r \in Readers : LockPoisoned(r)
    \/ \E r \in Readers, m \in Samples : MeasureOk(r, m[1], m[2])
    \/ \E r \in Readers : MeasureErr(r)
    \/ \E r \in Readers : EndLet(r)
    \/ \E r \in Readers : Classify(r)
    \/ \E r \in Readers : ReturnRaw(r)

Spec == Init /\ [][Next]_vars

(***************************************************************************)
(* The classification sweep: one index read whose hardware transaction      *)
(* returns any reading of the swept ranges.                                 *)
(***************************************************************************)
SweepInputs ==
    (((0..MaxPpm) \cup Co2Edges) \X VocEdges)
        \cup (Co2Edges \X ((0..MaxPpb) \cup VocEdges))

InvokeFirst(r, k) == invocations = 0 /\ Invoke(r, k)

SweepNext ==
    \/ InvokeFirst(1, "index")
    \/ LockOk(1)
    \/ pc[1] = "measuring" /\ \E m \in SweepInputs : MeasureOk(1, m[1], m[2])
    \/ EndLet(1)
    \/ Classify(1)

ClassifySpec == Init /\ [][SweepNext]_vars

(***************************************************************************)
(* The classification on readings below zero.  The integer type of          *)
(* co2eq_ppm and tvoc_ppb is declared by the sensor driver, not by main.rs; *)
(* this specification evaluates lines 75-99 as written on negative          *)
(* readings, should the type admit them.                                    *)
(***************************************************************************)
Negatives == (0 - MaxNegative)..(0 - 1)

NegativeInputs ==
    (Negatives \X (VocEdges \cup Negatives)) \cup (Co2Edges \X Negatives)

NegativeNext ==
    \/ InvokeFirst(1, "index")
    \/ LockOk(1)
    \/ pc[1] = "measuring" /\ \E m \in NegativeInputs : MeasureOk(1, m[1], m[2])
    \/ EndLet(1)
    \/ Classify(1)

NegativeSpec == Init /\ [][NegativeNext]_vars

(***************************************************************************)
(* Two index reads, one after the other: the first measures any CO2 reading *)
(* of the sweep, the second a reading at or next to a band edge.            *)
(***************************************************************************)
Co2Neighbours == {c + d : c \in Co2Edges, d \in {0, 1}}

InvokeSecond(r, k) == invocations = 1 /\ pc[1] = "done" /\ Invoke(r, k)

PairNext ==
    \/ InvokeFirst(1, "index")
    \/ InvokeSecond(2, "index")
    \/ \E r \in {1, 2} : LockOk(r)
    \/ pc[1] = "measuring" /\ \E c \in 0..MaxPpm : MeasureOk(1, c, 30)
    \/ pc[2] = "measuring" /\ \E c \in Co2Neighbours : MeasureOk(2, c, 30)
    \/ \E r \in {1, 2} : EndLet(r)
    \/ \E r \in {1, 2} : Classify(r)

PairSpec == Init /\ [][PairNext]_vars

(***************************************************************************)
(* Fairness: every task of the runtime keeps being scheduled, every         *)
(* hardware transaction returns, and a task blocked in Mutex::lock gets the *)
(* mutex if it is free again and again.                                     *)
(***************************************************************************)
Fairness ==
    \A r \in Readers :
        /\ SF_vars(LockOk(r))
        /\ SF_vars(LockPoisoned(r))
        /\ WF_vars(MeasureErr(r) \/ \E m \in Samples : MeasureOk(r, m[1], m[2]))
        /\ WF_vars(EndLet(r))
        /\ WF_vars(Classify(r))
        /\ WF_vars(ReturnRaw(r))

FairSpec == Init /\ [][Next]_vars /\ Fairness

(***************************************************************************)
(* main (lines 39-147), step by step.  Every .unwrap() of main panics on    *)
(* the main task: the process ends and nothing after it runs.               *)
(***************************************************************************)
\* the process is up exactly while main has not panicked
ProcessAt(b) == IF b = "failed" THEN "terminated" ELSE "running"

\* what a step of main that unwraps `ok` leaves behind
MainStep(ok, next, err) ==
    /\ bpc' = Unwrap(ok, next)
    /\ process' = ProcessAt(bpc')
    /\ fatal' = IF ok THEN fatal ELSE err

ReadersUnchanged ==
    UNCHANGED <<pc, kind, holder, poisoned, lastTx, txCount, txBy, txResult,
                measurement, co2, voc, co2_value, voc_value, ret, invocations>>

\* Line 41, lazy_static::initialize(&SGP30): I2cdev::new(..).unwrap() fails
\* when the bus is unreachable, sgp.init().unwrap() when the sensor does not
\* answer.
InitSensor ==
    /\ process = "running"
    /\ bpc = "start"
    /\ \E res \in {"ok", "bus", "init"} :
          /\ MainStep(res = "ok", "assemble", res)
          /\ sensorInits' = IF res = "ok" THEN LazyInit(sensorInits)
                                          ELSE sensorInits
    /\ ReadersUnchanged
    /\ UNCHANGED <<ifaces, storage, config, server, path, readyCount, starts,
                   firstPersisted>>

\* Lines 57-118: AirQualitySensorAccessory::new(..).unwrap() and the three
\* on_read_async registrations.
Assemble ==
    /\ process = "running"
    /\ bpc = "assemble"
    /\ \E ok \in BOOLEAN : MainStep(ok, "open", "accessory")
    /\ ReadersUnchanged
    /\ UNCHANGED <<sensorInits, ifaces, storage, config, server, path,
                   readyCount, starts, firstPersisted>>

\* Line 120: FileStorage::new(DATA_PATH).await.unwrap()
OpenStorage ==
    /\ process = "running"
    /\ bpc = "open"
    /\ \E ok \in BOOLEAN : MainStep(ok, "load", "storage_open")
    /\ ReadersUnchanged
    /\ UNCHANGED <<sensorInits, ifaces, storage, config, server, path,
                   readyCount, starts, firstPersisted>>

\* Lines 122-124: match storage.load_config().await
LoadConfig ==
    /\ process = "running"
    /\ bpc = "load"
    /\ bpc' = OnLoad(LoadSucceeded)
    /\ path' = Append(path, IF LoadSucceeded THEN "load_ok" ELSE "load_fail")
    /\ config' = IF LoadSucceeded THEN storage ELSE config
    /\ readyCount' = IF bpc' = "ready" THEN readyCount + 1 ELSE readyCount
    /\ ReadersUnchanged
    /\ UNCHANGED <<process, sensorInits, ifaces, storage, server, fatal, starts,
                   firstPersisted>>

\* Lines 125-132: the Config literal; current_ipv4().unwrap() panics when the
\* host has no non-loopback IPv4 address.  Pin::new of the fixed digits
\* succeeds.
Derive ==
    /\ process = "running"
    /\ bpc = "derive"
    /\ LET ip == CurrentIpv4(ifaces)
       IN  /\ MainStep(ip # NoAddr, "persist", "no_ipv4")
           /\ config' = IF ip # NoAddr THEN DerivedConfig(ip) ELSE config
    /\ path' = Append(path, "derive")
    /\ ReadersUnchanged
    /\ UNCHANGED <<sensorInits, ifaces, storage, server, readyCount, starts,
                   firstPersisted>>

\* Lines 133-134: storage.save_config(&config).await.unwrap(); config
Persist ==
    /\ process = "running"
    /\ bpc = "persist"
    /\ \E ok \in BOOLEAN :
          /\ MainStep(ok, "ready", "persist")
          /\ storage' = IF ok THEN config ELSE storage
          /\ firstPersisted' =
                IF ok /\ firstPersisted = NoPersist
                   THEN [cfg |-> config, start |-> starts]
                   ELSE firstPersisted
    /\ path' = Append(path, "persist")
    /\ readyCount' = IF bpc' = "ready" THEN readyCount + 1 ELSE readyCount
    /\ ReadersUnchanged
    /\ UNCHANGED <<sensorInits, ifaces, config, server, starts>>

\* Lines 138-139: IpServer::new(config, storage).unwrap() and
\* server.add_accessory(accessory).await.unwrap()
BuildServer ==
    /\ process = "running"
    /\ bpc = "ready"
    /\ \E ok \in BOOLEAN :
          /\ MainStep(ok, "built", "server")
          /\ server' = IF ok THEN config ELSE server
    /\ ReadersUnchanged
    /\ UNCHANGED <<sensorInits, ifaces, storage, config, path, readyCount,
                   starts, firstPersisted>>

\* Lines 141-146: run_handle() and handle.await: the server accepts reads
RunServer ==
    /\ process = "running"
    /\ bpc = "built"
    /\ bpc' = "serving"
    /\ ReadersUnchanged
    /\ UNCHANGED <<process, sensorInits, ifaces, storage, config, server, path,
                   fatal, readyCount, starts, firstPersisted>>

\* a fresh process: nothing but the storage location outlives the last one
FreshProcess ==
    /\ process = "running"
    /\ bpc = "start"
    /\ sensorInits = 0
    /\ config = NoConfig
    /\ server = NoConfig
    /\ path = <<>>
    /\ fatal = "none"
    /\ readyCount = 0
    /\ ReadersIdle

\* The process has ended, or is stopped while serving, and is started again
\* on the same storage location; the host's interfaces may have changed.
Restart ==
    /\ bpc \in {"serving", "failed"}
    /\ starts < MaxStarts
    /\ starts' = starts + 1
    /\ ifaces' \in HostSamples
    /\ process' = "running"
    /\ bpc' = "start"
    /\ sensorInits' = 0
    /\ config' = NoConfig
    /\ server' = NoConfig
    /\ path' = <<>>
    /\ fatal' = "none"
    /\ readyCount' = 0
    /\ pc' = [r \in Readers |-> "idle"]
    /\ kind' = [r \in Readers |-> "index"]
    /\ holder' = {}
    /\ poisoned' = FALSE
    /\ lastTx' = NoMeasurement
    /\ txCount' = 0
    /\ txBy' = [r \in Readers |-> 0]
    /\ txResult' = [r \in Readers |-> "none"]
    /\ measurement' = [r \in Readers |-> NoMeasurement]
    /\ co2' = [r \in Readers |-> NoLocal]
    /\ voc' = [r \in Readers |-> NoLocal]
    /\ co2_value' = [r \in Readers |-> 0]
    /\ voc_value' = [r \in Readers |-> 0]
    /\ ret' = [r \in Readers |-> NoValue]
    /\ invocations' = 0
    /\ UNCHANGED <<storage, firstPersisted>>

\* first start, on a clean storage location
BootInit ==
    /\ FreshProcess
    /\ ifaces \in HostSamples
    /\ storage = NoConfig
    /\ starts = 1
    /\ firstPersisted = NoPersist

BootNext ==
    \/ InitSensor
    \/ Assemble
    \/ OpenStorage
    \/ LoadConfig
    \/ Derive
    \/ Persist
    \/ BuildServer
    \/ RunServer
    \/ Restart
    \/ \E k \in Kinds : Invoke(1, k)
    \/ LockOk(1)
    \/ LockPoisoned(1)
    \/ \E m \in Samples : MeasureOk(1, m[1], m[2])
    \/ MeasureErr(1)
    \/ EndLet(1)
    \/ Classify(1)
    \/ ReturnRaw(1)

BootSpec == BootInit /\ [][BootNext]_vars

(***************************************************************************)
(* Address discovery on every host within the bounds: load_config has       *)
(* failed on a clean storage location and main derives a config.            *)
(***************************************************************************)
DeriveInit ==
    /\ process = "running"
    /\ bpc = "derive"
    /\ sensorInits = 1
    /\ ifaces \in AllHosts
    /\ storage = NoConfig
    /\ config = NoConfig
    /\ server = NoConfig
    /\ path = <<"load_fail">>
    /\ fatal = "none"
    /\ readyCount = 0
    /\ starts = 1
    /\ firstPersisted = NoPersist
    /\ ReadersIdle

DeriveNext ==
    \/ Derive
    \/ Persist

DeriveSpec == DeriveInit /\ [][DeriveNext]_vars

(***************************************************************************)
(* Properties.                                                              *)
(***************************************************************************)
\* positions at which a reader is inside measure(): its transaction is in
\* flight, or has returned and the guard temporary is still alive
InMeasure == {"measuring", "measured"}

\* C1: in every interleaving of reads of the three characteristics at most
\* one measure() transaction is in progress; while one is, no other reader is
\* inside measure(): the others wait in lock() or are outside the call.
C1_MutualExclusion ==
    \A r \in Readers :
        pc[r] = "measuring" =>
            \A q \in Readers \ {r} : pc[q] \notin InMeasure

\* a transaction in flight while another read waits for the mutex
C1_Witness ==
    \E r, q \in Readers :
        /\ r # q
        /\ pc[r] = "measuring"
        /\ pc[q] = "lock"

\* C2: a read whose hardware transaction failed completes by returning "no
\* value", raises no panic, and the process keeps running.
C2_FailureYieldsNoValue ==
    \A r \in Readers :
        txResult[r] = "err" =>
            /\ pc[r] = "done"
            /\ ret[r] = NoValue
            /\ process = "running"

\* C3: a read ends without a value only when its own hardware transaction
\* failed; an earlier read's failure neither blocks nor fails it.
C3_LaterReadsUnaffected ==
    \A r \in Readers :
        (Finished(r) /\ txResult[r] # "err") =>
            /\ pc[r] = "done"
            /\ txResult[r] = "ok"
            /\ ret[r].some

C5_NoReadStarves ==
    \A r \in Readers :
        /\ (pc[r] = "lock") ~> (pc[r] = "measuring" \/ process # "running")
        /\ (pc[r] = "measuring") ~> (Finished(r) \/ process # "running")

\* C6: every finished read invocation has performed exactly one hardware
\* transaction, and when no read is in flight the number of transactions
\* performed equals the number of invocations made.
C6_OneTransactionPerRead ==
    /\ \A r \in Readers : Finished(r) => txBy[r] = 1
    /\ (\A r \in Readers : pc[r] = "idle" \/ Finished(r)) => txCount = invocations

\* C7: the CO2 and VOC values an index read classifies come from one hardware
\* transaction, its own: never one transaction's CO2 with another's VOC.
C7_IndexPairFromOneTransaction ==
    \A r \in Readers :
        (kind[r] = "index" /\ pc[r] = "done") =>
            /\ co2[r].tx = voc[r].tx
            /\ co2[r].tx = measurement[r].tx
            /\ co2[r].tx >= 1
            /\ <<co2[r].val, voc[r].val>> \in Samples

\* an index read has finished and a later transaction of another read has
\* left different readings in the sensor
C7_Witness ==
    \E r \in Readers :
        /\ kind[r] = "index" /\ pc[r] = "done"
        /\ lastTx.tx > co2[r].tx
        /\ lastTx.tvoc_ppb # voc[r].val

\* the boundary readings of section 8 and their tiers
Co2Boundary ==
    {<<399, 1>>, <<400, 2>>, <<999, 2>>, <<1000, 3>>, <<1999, 3>>, <<2000, 4>>,
     <<4999, 4>>, <<5000, 5>>}

VocBoundary ==
    {<<24, 1>>, <<25, 2>>, <<49, 2>>, <<50, 3>>, <<324, 3>>, <<325, 4>>,
     <<499, 4>>, <<500, 5>>}

\* C8: for every non-negative CO2 reading c the CO2 tier is 1 below 400, 2 in
\* [400,1000), 3 in [1000,2000), 4 in [2000,5000) and 5 from 5000 on; the
\* boundary readings get the tiers listed.
C8_Co2Bands ==
    \A r \in Readers :
        (kind[r] = "index" /\ pc[r] = "done") =>
            LET c == measurement[r].co2eq_ppm
                t == co2_value[r]
            IN  /\ c >= 0
                /\ (c < 400) => t = 1
                /\ (400 <= c /\ c < 1000) => t = 2
                /\ (1000 <= c /\ c < 2000) => t = 3
                /\ (2000 <= c /\ c < 5000) => t = 4
                /\ (c >= 5000) => t = 5
                /\ \A b \in Co2Boundary : c = b[1] => t = b[2]

\* the index read has classified the reading 400 ppm as tier 2
C8_Witness ==
    /\ pc[1] = "done"
    /\ measurement[1].co2eq_ppm = 400
    /\ co2_value[1] = 2

\* C9: for every non-negative VOC reading v the VOC tier is 1 below 25, 2 in
\* [25,50), 3 in [50,325), 4 in [325,500) and 5 from 500 on; the boundary
\* readings get the tiers listed.
C9_VocBands ==
    \A r \in Readers :
        (kind[r] = "index" /\ pc[r] = "done") =>
            LET v == measurement[r].tvoc_ppb
                t == voc_value[r]
            IN  /\ v >= 0
                /\ (v < 25) => t = 1
                /\ (25 <= v /\ v < 50) => t = 2
                /\ (50 <= v /\ v < 325) => t = 3
                /\ (325 <= v /\ v < 500) => t = 4
                /\ (v >= 500) => t = 5
                /\ \A b \in VocBoundary : v = b[1] => t = b[2]

\* the index read has classified the reading 325 ppb as tier 4
C9_Witness ==
    /\ pc[1] = "done"
    /\ measurement[1].tvoc_ppb = 325
    /\ voc_value[1] = 4

\* the tier of reading x in a band table: one more than the number of band
\* edges at or below x
BandTier(edges, x) == 1 + Cardinality({e \in edges : e <= x})

Co2BandEdges == {400, 1000, 2000, 5000}
VocBandEdges == {25, 50, 325, 500}

\* C10: a successful index read returns the larger of the CO2 tier and the
\* VOC tier of its measurement; (3000, 30) gives 4 and (100, 600) gives 5.
C10_IndexIsMaxTier ==
    \A r \in Readers :
        (kind[r] = "index" /\ pc[r] = "done") =>
            LET m == measurement[r]
                a == BandTier(Co2BandEdges, m.co2eq_ppm)
                b == BandTier(VocBandEdges, m.tvoc_ppb)
            IN  /\ ret[r].some
                /\ ret[r].value >= a
                /\ ret[r].value >= b
                /\ ret[r].value \in {a, b}
                /\ (m.co2eq_ppm = 3000 /\ m.tvoc_ppb = 30) => ret[r].value = 4
                /\ (m.co2eq_ppm = 100 /\ m.tvoc_ppb = 600) => ret[r].value = 5

\* the index read of (100 ppm, 600 ppb) has returned 5: the VOC tier dominates
C10_Witness ==
    /\ pc[1] = "done"
    /\ measurement[1].co2eq_ppm = 100
    /\ measurement[1].tvoc_ppb = 600
    /\ ret[1] = Some(5)

\* C11: every tier produced, the CO2 tier, the VOC tier and the index an
\* index read returns, is one of 1, 2, 3, 4, 5, whatever the raw measurement.
C11_TiersInRange ==
    \A r \in Readers :
        (kind[r] = "index" /\ pc[r] = "done") =>
            /\ co2_value[r] \in 1..5
            /\ voc_value[r] \in 1..5
            /\ ret[r].some
            /\ ret[r].value \in 1..5

\* the index read of the largest 16-bit readings has returned tier 5
C11_Witness ==
    /\ pc[1] = "done"
    /\ measurement[1].co2eq_ppm = 65535
    /\ measurement[1].tvoc_ppb = 65535
    /\ co2_value[1] = 5 /\ voc_value[1] = 5
    /\ ret[1] = Some(5)

C17_Co2Monotone ==
    \A r, q \in Readers :
        (/\ kind[r] = "index" /\ pc[r] = "done"
         /\ kind[q] = "index" /\ pc[q] = "done"
         /\ measurement[r].co2eq_ppm <= measurement[q].co2eq_ppm)
            => co2_value[r] <= co2_value[q]

\* readings 1999 and 2000 classified as tiers 3 and 4
C17_Witness ==
    /\ pc[1] = "done" /\ pc[2] = "done"
    /\ measurement[1].co2eq_ppm = 1999
    /\ measurement[2].co2eq_ppm = 2000
    /\ co2_value[1] = 3 /\ co2_value[2] = 4

\* main has bound `config` (line 122) and not failed since
ReadyOrLater == bpc \in {"ready", "built", "serving"}

LoadedPath == <<"load_ok">>
DerivedPath == <<"load_fail", "derive", "persist">>

\* addresses that are IPv4 and not loopback
Eligible == {"192.168.1.10", "10.0.0.5"}

IsPrefix(p, q) == Len(p) <= Len(q) /\ \A i \in 1..Len(p) : p[i] = q[i]

\* C12: startup reaches Ready by exactly two paths: load succeeded, the loaded
\* config is used, nothing is derived or persisted; or load failed, a config
\* is derived, then persisted, and only then Ready is reached with it.  Ready
\* is reached at most once and its config is the one the server gets.
C12_BootstrapStateMachine ==
    /\ IsPrefix(path, LoadedPath) \/ IsPrefix(path, DerivedPath)
    /\ readyCount <= 1
    /\ ReadyOrLater =>
          /\ readyCount = 1
          /\ path \in {LoadedPath, DerivedPath}
          /\ config = storage
          /\ config # NoConfig
          /\ path = DerivedPath =>
                /\ config.socket_addr[1] \in Eligible
                /\ firstPersisted.cfg = config
          /\ path = LoadedPath =>
                /\ firstPersisted.cfg = config
                /\ firstPersisted.start < starts
    /\ readyCount = 1 => (path \in {LoadedPath, DerivedPath} /\ fatal # "persist")
    /\ (~ReadyOrLater /\ bpc # "failed") => readyCount = 0
    /\ server # NoConfig => (ReadyOrLater /\ server = config)

\* Ready reached on the load path, by a start that found a stored config
C12_Witness ==
    /\ bpc = "serving"
    /\ path = LoadedPath
    /\ server = storage
    /\ starts = 2

\* C13: once a start on clean storage has derived and persisted a config,
\* the storage keeps exactly that config, and every later start loads it,
\* unchanged, without deriving or saving again.
C13_BootstrapIdempotent ==
    /\ storage \in {NoConfig, firstPersisted.cfg}
    /\ firstPersisted # NoPersist =>
          /\ storage = firstPersisted.cfg
          /\ starts > firstPersisted.start =>
                /\ IsPrefix(path, LoadedPath)
                /\ ReadyOrLater => config = firstPersisted.cfg
                /\ server # NoConfig => server = firstPersisted.cfg

\* a second start serves the config of the first although the host would now
\* derive a different address
C13_Witness ==
    /\ starts = 2
    /\ bpc = "serving"
    /\ firstPersisted.start = 1
    /\ server = firstPersisted.cfg
    /\ CurrentIpv4(ifaces) # server.socket_addr[1]

\* C14: after a fatal startup error (sensor bus unreachable, sensor init
\* failure, no non-loopback IPv4 address when deriving, config persist
\* failure, or any other failed unwrap of main) the process has ended, no
\* server was built or runs, and no characteristic read was served.
C14_FatalStartupStopsProcess ==
    fatal # "none" =>
        /\ bpc = "failed"
        /\ process = "terminated"
        /\ server = NoConfig
        /\ invocations = 0
        /\ txCount = 0
        /\ \A r \in Readers : pc[r] = "idle"

\* the save of the derived config failed and the process has ended
C14_Witness ==
    /\ fatal = "persist"
    /\ bpc = "failed"
    /\ path = DerivedPath

\* C15: the sensor is initialised exactly once per process and before any
\* measure(): whenever a read has been invoked or a transaction has run the
\* initialiser has run once, and no read or later access runs it again.
C15_SensorInitOnce ==
    /\ sensorInits \in {0, 1}
    /\ (bpc \notin {"start", "failed"}) => sensorInits = 1
    /\ (fatal \in {"bus", "init"}) => sensorInits = 0
    /\ (invocations > 0 \/ txCount > 0 \/ \E r \in Readers : pc[r] # "idle")
          => sensorInits = 1

\* two hardware transactions have run on the once-initialised sensor
C15_Witness ==
    /\ txCount = 2
    /\ sensorInits = 1
    /\ bpc = "serving"

\* every address of the host, in enumeration order
RECURSIVE Flatten(_)
Flatten(ifs) == IF ifs = <<>> THEN <<>> ELSE Head(ifs) \o Flatten(Tail(ifs))

\* the earliest eligible address of the host, or NoAddr
EarliestEligible(ifs) ==
    LET flat == Flatten(ifs)
        at == {i \in 1..Len(flat) : flat[i] \in Eligible}
    IN  IF at = {} THEN NoAddr
        ELSE flat[CHOOSE i \in at : \A j \in at : i <= j]

\* C18: Derive picks the first non-loopback IPv4 address in interface
\* enumeration order, skipping IPv6 and loopback addresses; with no such
\* address deriving fails fatally.
C18_FirstNonLoopbackIpv4 ==
    (Len(path) >= 2 /\ path[2] = "derive") =>
        LET want == EarliestEligible(ifaces)
        IN  IF want = NoAddr
               THEN /\ bpc = "failed"
                    /\ fatal = "no_ipv4"
                    /\ process = "terminated"
                    /\ config = NoConfig
               ELSE /\ config.socket_addr = <<want, 32000>>
                    /\ fatal # "no_ipv4"

\* IPv6 and loopback skipped on the first interface, the first of two IPv4
\* addresses of the second interface chosen
C18_Witness ==
    /\ ifaces = << <<"fe80::1", "127.0.0.1">>, <<"10.0.0.5", "192.168.1.10">> >>
    /\ bpc = "persist"
    /\ config.socket_addr[1] = "10.0.0.5"

\* C19: whenever the server is constructed or running, the storage holds a
\* config equal to the one handed to the server: a derived config reaches the
\* server only after its save succeeded.
C19_ServerConfigIsStored ==
    (server # NoConfig \/ bpc \in {"built", "serving"}) =>
        /\ server # NoConfig
        /\ storage = server

\* the server runs with a config derived and saved by this start
C19_Witness ==
    /\ bpc = "serving"
    /\ path = DerivedPath
    /\ storage = server
    /\ firstPersisted.start = starts

\* C20: address discovery happens on the derive path only: a start whose
\* load_config succeeded never derives, cannot fail for want of an address
\* or of a save, and goes on to build the server; a missing address is fatal
\* only after load_config failed.
C20_DiscoveryOnlyOnDerive ==
    /\ fatal = "no_ipv4" => (path = <<"load_fail", "derive">>)
    /\ (path # <<>> /\ path[1] = "load_ok") =>
          /\ path = LoadedPath
          /\ fatal \in {"none", "server"}
          /\ bpc \in {"ready", "built", "serving", "failed"}

\* the server runs on a loaded config on a host without any non-loopback IPv4
\* address
C20_Witness ==
    /\ bpc = "serving"
    /\ path = LoadedPath
    /\ EarliestEligible(ifaces) = NoAddr
    /\ fatal = "none"

====
